---------------------------- MODULE Spec2Model ----------------------------
(***************************************************************************)
(* Model of app.py, the e-commerce analytics dashboard: the cleaner        *)
(* (clean_data), the loader (load_data), the sidebar data-source block     *)
(* that a rerun of the script executes, the date filter, the tab-1         *)
(* aggregation (KPIs, top products) and the tab-2 RFM segmentation block.  *)
(*                                                                         *)
(* Dates are day numbers, amounts are integers.  Quantile edges computed    *)
(* by pd.qcut with linear interpolation are kept exactly by scaling every  *)
(* value by 4 (the number of quantiles).                                   *)
(***************************************************************************)
EXTENDS Integers, Sequences, FiniteSets, TLC

VARIABLES
    data_source,    \* st.radio "Select Data Source" (widget state)
    uploaded_file,  \* st.file_uploader value (widget state), NoFile when empty
    date_sel,       \* st.date_input selection <<start, end>>, NoSel when unset
    trigger,        \* what caused the last rerun of the script
    df,             \* script variable df at the end of the last rerun
    error,          \* TRUE iff st.error was shown by load_data in the last rerun
    filtered_df,    \* script variable filtered_df (sequence of rows)
    kpi,            \* tab-1 KPI row of the last rerun (ran = FALSE when not executed)
    sales_over_time,\* tab-1 weekly revenue of the last rerun
    top_products,   \* tab-1 top products of the last rerun
    rfm,            \* outcome of the tab-2 RFM block of the last rerun
    raw,            \* input table handed to clean_data
    cleaned,        \* clean_data(raw)
    recleaned       \* clean_data(clean_data(raw))

vars == <<data_source, uploaded_file, date_sel, trigger, df, error, filtered_df,
          kpi, sales_over_time, top_products, rfm, raw, cleaned, recleaned>>

session_vars == <<data_source, uploaded_file, date_sel, trigger, df, error>>
cleaner_vars == <<raw, cleaned, recleaned>>
tab1_vars == <<kpi, sales_over_time, top_products>>

-----------------------------------------------------------------------------
(* Bounds of the model *)

MaxRows == 3        \* rows of a filtered table handed to the RFM block
MaxDay == 3         \* order dates are the days 1..MaxDay
MaxSale == 3        \* TotalSales of a row is in 1..MaxSale
MaxCustR == 5       \* customers of the one-order-per-customer tables
MaxDayR == 4        \* order dates of the one-order-per-customer tables
MaxCsvRows == 2     \* rows of a CSV file handed to the cleaner
MaxRevenue == 6     \* summed TotalSales of a table handed to top products

TopN == 5           \* nlargest(5)
NQuantiles == 4     \* pd.qcut(..., 4, ...)

MaxMockRows == 2    \* rows of the generated sample table (500 in the program)
DaysPerWeek == 7    \* resample('W')

Skipped == "skipped"

\* the script variable df: None, or a DataFrame
NoneDF == [is_none |-> TRUE, rows |-> <<>>]
DF(rows) == [is_none |-> FALSE, rows |-> rows]

NoFile == "NoFile"      \* the uploader holds no file
NoSel == <<0, 0>>       \* no date range picked

-----------------------------------------------------------------------------
(* Generic helpers *)

Max(S) == CHOOSE x \in S : \A y \in S : y <= x
Min(S) == CHOOSE x \in S : \A y \in S : x <= y

RECURSIVE SumSeq(_)
SumSeq(s) == IF s = <<>> THEN 0 ELSE Head(s) + SumSeq(Tail(s))

Row(d, c, p, s) == [OrderDate |-> d, CustomerID |-> c, ProductID |-> p, TotalSales |-> s]


-----------------------------------------------------------------------------
(* Cells of a DataFrame read from a CSV file.  A cell is a string (kept as   *)
(* its sequence of characters), a number, a timestamp (a day number) or a   *)
(* missing value (NaN / NaT).                                               *)

Str(s) == [k |-> "str", n |-> 0, s |-> s]
Num(n) == [k |-> "num", n |-> n, s |-> <<>>]
Date(n) == [k |-> "date", n |-> n, s |-> <<>>]
NaN == [k |-> "nan", n |-> 0, s |-> <<>>]

Digits == <<"0", "1", "2", "3", "4", "5", "6", "7", "8", "9">>
DigitVal(ch) == CHOOSE d \in 0..9 : Digits[d + 1] = ch
IsDigits(s) == s # <<>> /\ \A i \in DOMAIN s : \E d \in 0..9 : Digits[d + 1] = s[i]

RECURSIVE ParseInt(_)
ParseInt(s) ==
    IF s = <<>> THEN 0
    ELSE 10 * ParseInt(SubSeq(s, 1, Len(s) - 1)) + DigitVal(s[Len(s)])

RECURSIVE IntToStr(_)
IntToStr(n) ==
    IF n < 10 THEN <<Digits[n + 1]>> ELSE IntToStr(n \div 10) \o <<Digits[(n % 10) + 1]>>

\* the day number of day d of month m within the year of the file
DayNumber(d, m) == (m - 1) * 31 + d

\* pd.to_datetime(text, dayfirst=True, errors='coerce') of "d/m" texts of one
\* year: day first, month second; anything else is NaT
ParseDate(s) ==
    LET slashes == {i \in DOMAIN s : s[i] = "/"}
    IN  IF Cardinality(slashes) # 1 THEN NaN
        ELSE LET i  == CHOOSE j \in slashes : TRUE
                 dd == SubSeq(s, 1, i - 1)
                 mm == SubSeq(s, i + 1, Len(s))
             IN  IF IsDigits(dd) /\ IsDigits(mm)
                    /\ ParseInt(dd) \in 1..31 /\ ParseInt(mm) \in 1..12
                 THEN Date(DayNumber(ParseInt(dd), ParseInt(mm)))
                 ELSE NaN

\* pd.to_datetime on one cell: timestamps are kept, strings parsed
to_datetime(cell) ==
    IF cell.k = "date" THEN cell
    ELSE IF cell.k = "str" THEN ParseDate(cell.s)
    ELSE NaN

\* .astype(str) on one cell of an object column
astype_str(cell) ==
    IF cell.k = "str" THEN cell.s
    ELSE IF cell.k = "num" THEN IntToStr(cell.n)
    ELSE <<"n", "a", "n">>

\* .str.replace(r'[$,]', '', regex=True)
strip_currency(s) == SelectSeq(s, LAMBDA ch : ch \notin {"$", ","})

\* pd.to_numeric(errors='coerce') on one cell
to_numeric(cell) ==
    IF cell.k = "num" THEN cell
    ELSE IF cell.k = "str" /\ IsDigits(cell.s) THEN Num(ParseInt(cell.s))
    ELSE NaN

\* one line of a CSV file, a text per column
CsvRow(d, c, p, q, s) ==
    [OrderDate |-> d, CustomerID |-> c, ProductID |-> p, Quantity |-> q, TotalSales |-> s]

Columns == {"OrderDate", "CustomerID", "ProductID", "Quantity", "TotalSales"}

\* pd.read_csv: a column whose texts are all numbers is numeric, any other
\* column is an object column of strings
read_csv(csv) ==
    LET numeric(col) == \A i \in DOMAIN csv : IsDigits(csv[i][col])
    IN  [i \in DOMAIN csv |->
            [col \in Columns |->
                IF numeric(col) THEN Num(ParseInt(csv[i][col])) ELSE Str(csv[i][col])]]

\* df.drop_duplicates(): the first of equal rows is kept
drop_duplicates(T) ==
    LET keep(i) == \A j \in 1..(i - 1) : T[j] # T[i]
        RECURSIVE from(_)
        from(i) == IF i > Len(T) THEN <<>>
                   ELSE IF keep(i) THEN <<T[i]>> \o from(i + 1) ELSE from(i + 1)
    IN  from(1)

\* df[col].dtype == 'object'
is_object(T, col) == \E i \in DOMAIN T : T[i][col].k = "str"

\* step 3 of clean_data on one numeric column
clean_numeric(T, col) ==
    IF is_object(T, col)
    THEN [i \in DOMAIN T |->
            [T[i] EXCEPT ![col] = to_numeric(Str(strip_currency(astype_str(T[i][col]))))]]
    ELSE [i \in DOMAIN T |-> [T[i] EXCEPT ![col] = to_numeric(T[i][col])]]

\* df.dropna(subset=['OrderDate', 'TotalSales'])
dropna(T) ==
    SelectSeq(T, LAMBDA r : r["OrderDate"].k # "nan" /\ r["TotalSales"].k # "nan")

\* clean_data(df)
clean_data(T) ==
    LET d1 == drop_duplicates(T)
        d2 == [i \in DOMAIN d1 |-> [d1[i] EXCEPT !["OrderDate"] = to_datetime(d1[i]["OrderDate"])]]
        d3 == clean_numeric(clean_numeric(d2, "TotalSales"), "Quantity")
    IN  dropna(d3)

-----------------------------------------------------------------------------
(* Tab 2: the RFM segmentation block (app.py lines 212-238) *)

\* index of the groupby('CustomerID') result: the distinct customer ids
CustomerIDs(T) == {T[i].CustomerID : i \in DOMAIN T}

\* snapshot_date = filtered_df['OrderDate'].max() + timedelta(days=1)
snapshot_date(T) == Max({T[i].OrderDate : i \in DOMAIN T}) + 1

\* 'OrderDate': lambda x: (snapshot_date - x.max()).days
Recency(T, c) ==
    snapshot_date(T) - Max({T[i].OrderDate : i \in {j \in DOMAIN T : T[j].CustomerID = c}})

\* 'CustomerID': 'count'
Frequency(T, c) == Cardinality({i \in DOMAIN T : T[i].CustomerID = c})

\* 'TotalSales': 'sum'
Monetary(T, c) ==
    SumSeq([i \in 1..Len(T) |-> IF T[i].CustomerID = c THEN T[i].TotalSales ELSE 0])

\* Series.rank(method='first'): ranks 1..n, ties ranked in index order; the
\* index of rfm is the sorted CustomerID
rank_first(f, c) ==
    1 + Cardinality({d \in DOMAIN f : f[d] < f[c] \/ (f[d] = f[c] /\ d < c)})

\* the i-th smallest value (1-based) of the Series f
OrderStat(f, i) ==
    CHOOSE v \in {f[c] : c \in DOMAIN f} :
        /\ Cardinality({c \in DOMAIN f : f[c] < v}) < i
        /\ i <= Cardinality({c \in DOMAIN f : f[c] <= v})

\* NQuantiles times the k/NQuantiles quantile of f, linear interpolation
\* (Series.quantile as pd.qcut calls it): position k*(n-1)/NQuantiles
QuantileEdge(f, k) ==
    LET n  == Cardinality(DOMAIN f)
        p  == k * (n - 1)
        lo == p \div NQuantiles
        r  == p % NQuantiles
    IN  IF r = 0 THEN NQuantiles * OrderStat(f, lo + 1)
        ELSE (NQuantiles - r) * OrderStat(f, lo + 1) + r * OrderStat(f, lo + 2)

\* bins.searchsorted(x, side='left') with include_lowest: the 1-based bin of x
BinOf(f, c) ==
    LET x   == NQuantiles * f[c]
        ids == Cardinality({k \in 0..NQuantiles : QuantileEdge(f, k) < x})
    IN  IF x = QuantileEdge(f, 0) THEN 1 ELSE ids

\* "Bin edges must be unique" (duplicates='raise')
EdgesUnique(f) ==
    \A j, k \in 0..NQuantiles : j # k => QuantileEdge(f, j) # QuantileEdge(f, k)

\* pd.qcut(f, 4, labels=labels): raises ValueError unless the edges are unique
qcut(f, labels) ==
    IF EdgesUnique(f)
    THEN [raised |-> FALSE, cat |-> [c \in DOMAIN f |-> labels[BinOf(f, c)]]]
    ELSE [raised |-> TRUE, cat |-> <<>>]

R_labels == <<"4", "3", "2", "1">>
FM_labels == <<"1", "2", "3", "4">>

\* segment_customer(row)
segment_customer(row) ==
    IF row.RFM_Score \in {"444", "434", "443", "344"} THEN "Champions"
    ELSE IF row.R_Score = "4" THEN "New Users"
    ELSE IF row.R_Score = "1" THEN "At Risk"
    ELSE "Regular"

\* the three score columns: R_Score outside the try, F_Score and M_Score inside
\* it with the constant fallback of the except branch
Scores(T) ==
    LET ids == CustomerIDs(T)
        rec == [c \in ids |-> Recency(T, c)]
        frq == [c \in ids |-> Frequency(T, c)]
        mon == [c \in ids |-> Monetary(T, c)]
        R   == qcut(rec, R_labels)
        F   == qcut([c \in ids |-> rank_first(frq, c)], FM_labels)
        M   == qcut(mon, FM_labels)
        fallback == F.raised \/ M.raised
    IN  [raised |-> R.raised,
         warned |-> ~R.raised /\ fallback,
         R_Score |-> R.cat,
         F_Score |-> IF fallback THEN [c \in ids |-> "1"] ELSE F.cat,
         M_Score |-> IF fallback THEN [c \in ids |-> "1"] ELSE M.cat]

\* lines 213-238 on a non-empty table: the rfm frame with its Segment column,
\* or the ValueError of the R_Score qcut, which nothing catches
RFMCompute(T) ==
    LET sc == Scores(T)
    IN  IF sc.raised
        THEN [status |-> "raised", warned |-> FALSE, rec |-> <<>>]
        ELSE [status |-> "done", warned |-> sc.warned,
              rec |-> [c \in CustomerIDs(T) |->
                  LET score == sc.R_Score[c] \o sc.F_Score[c] \o sc.M_Score[c]
                  IN  [Recency   |-> Recency(T, c),
                       Frequency |-> Frequency(T, c),
                       Monetary  |-> Monetary(T, c),
                       R_Score   |-> sc.R_Score[c],
                       F_Score   |-> sc.F_Score[c],
                       M_Score   |-> sc.M_Score[c],
                       RFM_Score |-> score,
                       Segment   |-> segment_customer(
                           [RFM_Score |-> score, R_Score |-> sc.R_Score[c]])]]]

\* the block without its "if not filtered_df.empty" guard: the computation
\* is entered on an empty table and fails there
RFMBlock_unguarded(T) ==
    IF T = <<>> THEN [status |-> "raised", warned |-> FALSE, rec |-> <<>>]
    ELSE RFMCompute(T)

\* outcome of the block guarded by "if not filtered_df.empty"
RFMBlock(T) ==
    IF T = <<>> THEN [status |-> Skipped, warned |-> FALSE, rec |-> <<>>]
    ELSE RFMCompute(T)

-----------------------------------------------------------------------------
(* Tab 1: KPI row, weekly revenue and top products (app.py lines 170-205) *)

NoKpi == [ran |-> FALSE, total_revenue |-> 0, avg_is_nan |-> FALSE,
          total_orders |-> 0, unique_customers |-> 0]
NotRun == [ran |-> FALSE, rows |-> <<>>]

\* total_revenue, avg_order_value (NaN on an empty table), total_orders,
\* unique_customers
KpiRow(T) ==
    [ran |-> TRUE,
     total_revenue |-> SumSeq([i \in 1..Len(T) |-> T[i].TotalSales]),
     avg_is_nan |-> T = <<>>,
     total_orders |-> Len(T),
     unique_customers |-> Cardinality(CustomerIDs(T))]

\* week of a day: resample('W') buckets of DaysPerWeek days
WeekOf(d) == (d - 1) \div DaysPerWeek

\* filtered_df.set_index('OrderDate').resample('W')['TotalSales'].sum():
\* one sum per week from the first to the last week with a row
SalesOverTime(T) ==
    IF T = <<>> THEN [ran |-> TRUE, rows |-> <<>>]
    ELSE LET weeks == {WeekOf(T[i].OrderDate) : i \in DOMAIN T}
             w0    == Min(weeks)
         IN  [ran |-> TRUE,
              rows |-> [k \in 1..(Max(weeks) - w0 + 1) |->
                  <<w0 + k - 1,
                    SumSeq([i \in 1..Len(T) |->
                        IF WeekOf(T[i].OrderDate) = w0 + k - 1 THEN T[i].TotalSales ELSE 0])>>]]

\* filtered_df.groupby('ProductID')['TotalSales'].sum(): a Series indexed by
\* the sorted ProductID
groupby_sum(T) ==
    [p \in {T[i].ProductID : i \in DOMAIN T} |->
        SumSeq([i \in 1..Len(T) |-> IF T[i].ProductID = p THEN T[i].TotalSales ELSE 0])]

\* nlargest with keep='last': equal values in reverse order of the Series
nlargest_keep_last(ser, n) ==
    LET pos(p) == 1 + Cardinality({q \in DOMAIN ser :
                        ser[q] > ser[p] \/ (ser[q] = ser[p] /\ q > p)})
        len == IF Cardinality(DOMAIN ser) < n THEN Cardinality(DOMAIN ser) ELSE n
    IN  [r \in 1..len |-> LET p == CHOOSE q \in DOMAIN ser : pos(q) = r IN <<p, ser[p]>>]

\* Series.nlargest(n) with keep='first': descending by value, equal values in
\* the order of the Series (here the sorted ProductID), cut after n entries
nlargest(ser, n) ==
    LET pos(p) == 1 + Cardinality({q \in DOMAIN ser :
                        ser[q] > ser[p] \/ (ser[q] = ser[p] /\ q < p)})
        len == IF Cardinality(DOMAIN ser) < n THEN Cardinality(DOMAIN ser) ELSE n
    IN  [r \in 1..len |-> LET p == CHOOSE q \in DOMAIN ser : pos(q) = r IN <<p, ser[p]>>]

\* top_products = ....groupby('ProductID')['TotalSales'].sum().nlargest(5)
TopProducts(T) == [ran |-> TRUE, rows |-> nlargest(groupby_sum(T), TopN)]

-----------------------------------------------------------------------------
(* Loading, sample data and one run of the script (app.py lines 63-80,      *)
(* 109-117, 120-283)                                                        *)

\* the typed columns of a cleaned DataFrame that the dashboard computes on
Frame(T) ==
    [i \in DOMAIN T |->
        Row(T[i]["OrderDate"].n, T[i]["CustomerID"].n, T[i]["ProductID"].n,
            T[i]["TotalSales"].n)]

Files == {"sales.csv", "update.csv", "archive.csv", "broken.csv", "nodate.csv"}

Txt1 == <<"1">>
Txt2 == <<"2">>
Txt3 == <<"3">>

\* what the uploaded files hold: CSV rows, bytes that pd.read_csv cannot
\* parse, or a CSV without the OrderDate column (dropna raises KeyError)
FileContent(f) ==
    IF f = "sales.csv" THEN
        [kind |-> "csv",
         rows |-> << CsvRow(<<"0", "1", "/", "0", "1">>, Txt1, Txt1, Txt1, <<"$", "1", "2">>),
                     CsvRow(<<"3", "/", "1">>, Txt2, Txt2, Txt1, <<"7">>),
                     CsvRow(<<"x">>, Txt2, Txt2, Txt1, <<"7">>),
                     CsvRow(<<"6", "/", "1">>, Txt3, Txt2, Txt1, <<"1", ",", "0">>) >>]
    ELSE IF f = "update.csv" THEN
        [kind |-> "csv",
         rows |-> << CsvRow(<<"2", "/", "1">>, Txt1, Txt1, Txt2, <<"3", "0">>),
                     CsvRow(<<"0", "2", "/", "0", "1">>, Txt1, Txt1, Txt2, <<"3", "0">>),
                     CsvRow(<<"4", "/", "1">>, Txt2, Txt1, Txt1, <<"x">>),
                     CsvRow(<<"6", "/", "1">>, Txt2, Txt3, Txt1, <<"5">>) >>]
    ELSE IF f = "archive.csv" THEN
        [kind |-> "csv",
         rows |-> << CsvRow(<<"7", "/", "1">>, Txt1, Txt1, Txt1, <<"4">>),
                     CsvRow(<<"1", "/", "1">>, Txt2, Txt2, Txt1, <<"9">>),
                     CsvRow(<<"2", "/", "1">>, Txt3, Txt3, Txt1, <<"$", "8">>),
                     CsvRow(<<"4", "/", "1">>, <<"4">>, Txt3, Txt1, <<"2">>) >>]
    ELSE IF f = "broken.csv" THEN [kind |-> "garbage", rows |-> <<>>]
    ELSE [kind |-> "missing_column", rows |-> <<>>]

\* load_data(file): None and st.error when read_csv or clean_data raises.
\* st.cache_data returns the same result for the same file.
load_data(f) ==
    IF FileContent(f).kind = "csv"
    THEN [df |-> DF(Frame(clean_data(read_csv(FileContent(f).rows)))), error |-> FALSE]
    ELSE [df |-> NoneDF, error |-> TRUE]

\* products of generate_mock_data in the sorted order of their names, and
\* their prices
Prices == <<350, 60, 45, 150, 120>>

MockDays == {1, 2, 3}
MockCustomers == {1000, 1001}
MockProducts == {2}
MockQuantities == {1}

\* the tables generate_mock_data() can return
MockTables ==
    LET rows == {[OrderDate |-> Date(d), CustomerID |-> Num(c), ProductID |-> Num(pr),
                  Quantity |-> Num(q), TotalSales |-> Num(Prices[pr] * q)] :
                     d \in MockDays, c \in MockCustomers, pr \in MockProducts,
                     q \in MockQuantities}
    IN  [1..MaxMockRows -> rows]

MinDate(T) == Min({T[i].OrderDate : i \in DOMAIN T})
MaxDate(T) == Max({T[i].OrderDate : i \in DOMAIN T})

\* mask = (OrderDate >= start_date) & (OrderDate <= end_date); df.loc[mask]
date_filter(T, sel) ==
    SelectSeq(T, LAMBDA r : r.OrderDate >= sel[1] /\ r.OrderDate <= sel[2])

\* One run of the script from the widget values: ds the radio, f the uploader,
\* clicked the button, mock the table generate_mock_data returns when it is
\* called, sel the date range picked by the user (NoSel: none picked).
Script(ds, f, clicked, mock, sel, why) ==
    LET loaded == IF ds = "Upload CSV"
                  THEN IF f # NoFile THEN load_data(f) ELSE [df |-> NoneDF, error |-> FALSE]
                  ELSE IF clicked
                       THEN [df |-> DF(Frame(clean_data(mock))), error |-> FALSE]
                       ELSE [df |-> NoneDF, error |-> FALSE]
        T   == loaded.df.rows
        \* the date widget is a new widget when its bounds change
        shown == IF sel # NoSel /\ ~df.is_none /\ df.rows # <<>>
                    /\ MinDate(df.rows) = MinDate(T) /\ MaxDate(df.rows) = MaxDate(T)
                 THEN sel ELSE <<MinDate(T), MaxDate(T)>>
    IN  /\ data_source' = ds
        /\ uploaded_file' = (IF ds = "Upload CSV" THEN f ELSE NoFile)
        /\ trigger' = why
        /\ df' = loaded.df
        /\ error' = loaded.error
        /\ IF loaded.df.is_none
           THEN /\ date_sel' = NoSel
                /\ filtered_df' = <<>>
                /\ kpi' = NoKpi
                /\ sales_over_time' = NotRun
                /\ top_products' = NotRun
                /\ rfm' = [status |-> "no table", warned |-> FALSE, rec |-> <<>>]
           ELSE /\ date_sel' = shown
                /\ filtered_df' = date_filter(T, shown)
                /\ kpi' = KpiRow(filtered_df')
                /\ sales_over_time' = SalesOverTime(filtered_df')
                /\ top_products' = TopProducts(filtered_df')
                /\ rfm' = RFMBlock(filtered_df')
        /\ UNCHANGED cleaner_vars

-----------------------------------------------------------------------------
(* Values the variables of the other parts keep while one part is explored *)

IdleSession ==
    /\ data_source = "Upload CSV"
    /\ uploaded_file = NoFile
    /\ date_sel = NoSel
    /\ trigger = "start"
    /\ df = NoneDF
    /\ error = FALSE

IdleCleaner == raw = <<>> /\ cleaned = <<>> /\ recleaned = <<>>


IdleTab1 ==
    /\ kpi = NoKpi
    /\ sales_over_time = NotRun
    /\ top_products = NotRun

-----------------------------------------------------------------------------
(* The RFM block applied to every small filtered table.  Customers are      *)
(* numbered in order of first appearance; the block groups by CustomerID,  *)
(* so the numbering only fixes the names.                                  *)

\* a first order of a customer not yet in the table
AppendNewCustomer(d, s) ==
    LET c == Cardinality(CustomerIDs(filtered_df)) + 1
    IN  filtered_df' = Append(filtered_df, Row(d, c, 1, s))

\* the block reruns on the new table; tab 1 is not the subject here
RerunRFM ==
    /\ rfm' = RFMBlock(filtered_df')
    /\ UNCHANGED <<tab1_vars, session_vars, cleaner_vars>>

NewCustomerOrder ==
    /\ Len(filtered_df) < MaxRows
    /\ \E d \in 1..MaxDay, s \in 1..MaxSale : AppendNewCustomer(d, s)
    /\ RerunRFM

RepeatOrder ==
    /\ Len(filtered_df) < MaxRows
    /\ \E c \in CustomerIDs(filtered_df), d \in 1..MaxDay, s \in 1..MaxSale :
           filtered_df' = Append(filtered_df, Row(d, c, 1, s))
    /\ RerunRFM

\* one row's TotalSales is increased: the Monetary of its customer increases,
\* every Recency and Frequency and every other Monetary stay as they are
RaiseSale ==
    /\ \E i \in DOMAIN filtered_df :
         \E s \in (filtered_df[i].TotalSales + 1)..MaxSale :
           filtered_df' = [filtered_df EXCEPT ![i].TotalSales = s]
    /\ RerunRFM

InitRFM ==
    /\ IdleSession /\ IdleCleaner
    /\ IdleTab1
    /\ \E d \in 1..MaxDay, s \in 1..MaxSale : filtered_df = <<Row(d, 1, 1, s)>>
    /\ rfm = RFMBlock(filtered_df)

NextRFM == NewCustomerOrder \/ RepeatOrder \/ RaiseSale

SpecRFM == InitRFM /\ [][NextRFM]_vars

(* The RFM block on tables with one order per customer, for more customers *)

FirstOrder ==
    /\ Len(filtered_df) < MaxCustR
    /\ \E d \in 1..MaxDayR : AppendNewCustomer(d, 1)
    /\ RerunRFM

InitRecency ==
    /\ IdleSession /\ IdleCleaner
    /\ IdleTab1
    /\ \E d \in 1..MaxDayR : filtered_df = <<Row(d, 1, 1, 1)>>
    /\ rfm = RFMBlock(filtered_df)

NextRecency == FirstOrder

SpecRecency == InitRecency /\ [][NextRecency]_vars

-----------------------------------------------------------------------------
(* Claims about the RFM block *)

Segments == {"Champions", "New Users", "At Risk", "Regular"}

ScoreNum(s) == CHOOSE n \in 1..NQuantiles : FM_labels[n] = s

\* C1: for every non-empty table the RFM block completes without raising, with
\* exactly one record per distinct customer id and a Segment among the four labels.
C1_OneRecordPerCustomer ==
    filtered_df # <<>> =>
        /\ rfm.status = "done"
        /\ DOMAIN rfm.rec = CustomerIDs(filtered_df)
        /\ \A c \in DOMAIN rfm.rec : rfm.rec[c].Segment \in Segments

\* some metric of the table cannot form its quartile bins
BinningFails(T) ==
    LET ids == CustomerIDs(T)
    IN  \/ ~EdgesUnique([c \in ids |-> Recency(T, c)])
        \/ ~EdgesUnique([c \in ids |-> rank_first([e \in ids |-> Frequency(T, e)], c)])
        \/ ~EdgesUnique([c \in ids |-> Monetary(T, c)])

\* C4: whenever the table has one distinct customer, or quartile binning fails
\* for any of the three metrics, the block does not raise and every customer
\* has F_Score = '1' and M_Score = '1'.
C4_DegenerateDoesNotRaise ==
    (filtered_df # <<>> /\
       (Cardinality(CustomerIDs(filtered_df)) = 1 \/ BinningFails(filtered_df))) =>
        /\ rfm.status = "done"
        /\ \A c \in DOMAIN rfm.rec :
              rfm.rec[c].F_Score = "1" /\ rfm.rec[c].M_Score = "1"

\* C8: a step that increases one customer's Monetary and nothing else never
\* decreases the M_Score of any customer whose Monetary did not decrease, in
\* particular not the M_Score of the customer whose Monetary was increased.
C8_MScoreMonotone ==
    [][(RaiseSale /\ rfm.status = "done" /\ rfm'.status = "done") =>
          \A c \in DOMAIN rfm.rec :
              rfm'.rec[c].Monetary > rfm.rec[c].Monetary =>
                  ScoreNum(rfm'.rec[c].M_Score) >= ScoreNum(rfm.rec[c].M_Score)]_vars

\* C9: with at least 4 distinct Recency values, every customer with the smallest
\* Recency has R_Score '4' and every customer with the largest has R_Score '1'.
C9_RecencyInversion ==
    LET ids == CustomerIDs(filtered_df)
        rec == {Recency(filtered_df, c) : c \in ids}
    IN  (filtered_df # <<>> /\ Cardinality(rec) >= 4) =>
            /\ rfm.status = "done"
            /\ \A c \in ids :
                 /\ Recency(filtered_df, c) = Min(rec) => rfm.rec[c].R_Score = "4"
                 /\ Recency(filtered_df, c) = Max(rec) => rfm.rec[c].R_Score = "1"


-----------------------------------------------------------------------------
(* The cleaner applied to every small CSV file *)

DateTexts == {<<"0", "1", "/", "0", "2">>, <<"1", "/", "2">>, <<"2", "/", "1">>, <<"x">>}
SalesTexts == {<<"1", "2">>, <<"$", "1", "2">>, <<"7">>, <<"x">>}
QuantityTexts == {<<"1">>, <<"$", "1">>}

\* clean_data is applied to the DataFrame of a file with one more row, and
\* then once more to its own result
CleanFile ==
    /\ Len(raw) < MaxCsvRows
    /\ \E d \in DateTexts, q \in QuantityTexts, s \in SalesTexts :
           raw' = Append(raw, CsvRow(d, <<"A">>, <<"P">>, q, s))
    /\ cleaned' = clean_data(read_csv(raw'))
    /\ recleaned' = clean_data(cleaned')
    /\ UNCHANGED <<session_vars, filtered_df, tab1_vars, rfm>>

InitClean ==
    /\ IdleSession /\ IdleCleaner
    /\ filtered_df = <<>>
    /\ IdleTab1
    /\ rfm = RFMBlock(<<>>)

NextClean == CleanFile

SpecClean == InitClean /\ [][NextClean]_vars

\* C2: clean_data is idempotent: cleaning the cleaned table gives the same rows.
C2_Idempotent == recleaned = cleaned

\* C3: the cleaned table has no row with a missing OrderDate or TotalSales and
\* no two rows that are equal in every column.
C3_CleanedInvariant ==
    /\ \A i \in DOMAIN cleaned :
          cleaned[i]["OrderDate"].k # "nan" /\ cleaned[i]["TotalSales"].k # "nan"
    /\ \A i, j \in DOMAIN cleaned : i # j => cleaned[i] # cleaned[j]


-----------------------------------------------------------------------------
(* The top-products computation applied to every table of bounded revenue *)

ProductIDs == 1..(TopN + 1)

Revenue(T) == SumSeq([i \in 1..Len(T) |-> T[i].TotalSales])

\* tab 1 is recomputed on a table with one more order row
AddSale ==
    /\ \E p \in ProductIDs, s \in 1..(MaxRevenue - Revenue(filtered_df)) :
           filtered_df' = Append(filtered_df, Row(1, 1, p, s))
    /\ kpi' = KpiRow(filtered_df')
    /\ sales_over_time' = SalesOverTime(filtered_df')
    /\ top_products' = TopProducts(filtered_df')
    /\ UNCHANGED <<rfm, session_vars, cleaner_vars>>

InitTop ==
    /\ IdleSession /\ IdleCleaner
    /\ filtered_df = <<>>
    /\ kpi = KpiRow(<<>>)
    /\ sales_over_time = SalesOverTime(<<>>)
    /\ top_products = TopProducts(<<>>)
    /\ rfm = RFMBlock(<<>>)

NextTop == AddSale

SpecTop == InitTop /\ [][NextTop]_vars

ProductsOf(T) == {T[i].ProductID : i \in DOMAIN T}
ProductSales(T, p) == Revenue(SelectSeq(T, LAMBDA r : r.ProductID = p))
FirstRowOf(T, p) == Min({i \in DOMAIN T : T[i].ProductID = p})

\* the result lists min(TopN, number of products) distinct products of the
\* table, each with its summed TotalSales, by summed sales descending
TopIsRanking(T, rows) ==
    /\ Len(rows) <= TopN
    /\ Len(rows) = Cardinality({rows[r][1] : r \in DOMAIN rows})
    /\ \/ Len(rows) = TopN
       \/ {rows[r][1] : r \in DOMAIN rows} = ProductsOf(T)
    /\ \A r \in DOMAIN rows :
          rows[r][1] \in ProductsOf(T) /\ rows[r][2] = ProductSales(T, rows[r][1])
    /\ \A r1, r2 \in DOMAIN rows : r1 < r2 => rows[r1][2] >= rows[r2][2]
    /\ \A q \in ProductsOf(T) \ {rows[r][1] : r \in DOMAIN rows} :
          \A r \in DOMAIN rows : rows[r][2] >= ProductSales(T, q)

\* before(p, q) decides which of two products with equal sums comes first
TiesBrokenBy(T, rows, before(_, _)) ==
    /\ \A r1, r2 \in DOMAIN rows :
          (r1 < r2 /\ rows[r1][2] = rows[r2][2]) => before(rows[r1][1], rows[r2][1])
    /\ \A q \in ProductsOf(T) \ {rows[r][1] : r \in DOMAIN rows} :
          \A r \in DOMAIN rows :
              rows[r][2] = ProductSales(T, q) => before(rows[r][1], q)

\* C10 as stated: at most 5 (ProductID, summed TotalSales) pairs by summed sales
\* descending, equal sums ordered by the first row of the product in the table.
C10_TiesByFirstRow ==
    top_products.ran =>
        /\ TopIsRanking(filtered_df, top_products.rows)
        /\ TiesBrokenBy(filtered_df, top_products.rows,
              LAMBDA p, q : FirstRowOf(filtered_df, p) < FirstRowOf(filtered_df, q))

\* C10 amended: at most 5 (ProductID, summed TotalSales) pairs by summed sales
\* descending, equal sums ordered by ascending ProductID (the order of the
\* grouped Series), also across the cut-off at 5.
C10_TiesByProductID ==
    top_products.ran =>
        /\ TopIsRanking(filtered_df, top_products.rows)
        /\ TiesBrokenBy(filtered_df, top_products.rows, LAMBDA p, q : p < q)

\* six products, and the fifth listed product ties with the one left out,
\* whose first row comes earlier in the table
C10_Witness ==
    /\ top_products.ran
    /\ Cardinality(ProductsOf(filtered_df)) = TopN + 1
    /\ Len(top_products.rows) = TopN
    /\ \E q \in ProductsOf(filtered_df) :
          /\ \A r \in 1..TopN : top_products.rows[r][1] # q
          /\ ProductSales(filtered_df, q) = top_products.rows[TopN][2]
          /\ FirstRowOf(filtered_df, q) < FirstRowOf(filtered_df, top_products.rows[TopN][1])


-----------------------------------------------------------------------------
(* The session: every user interaction reruns the script *)

NoMock == <<>>

\* the radio is switched
SelectSource ==
    \E ds \in {"Upload CSV", "Use Demo Data"} :
        /\ ds # data_source
        /\ Script(ds, NoFile, FALSE, NoMock, NoSel, "source")

\* a file is dropped on the uploader
Upload ==
    /\ data_source = "Upload CSV"
    /\ \E f \in Files : f # uploaded_file /\ Script(data_source, f, FALSE, NoMock, date_sel, "upload")

\* the file is removed from the uploader
RemoveFile ==
    /\ data_source = "Upload CSV"
    /\ uploaded_file # NoFile
    /\ Script(data_source, NoFile, FALSE, NoMock, NoSel, "remove")

\* click on "Generate Sample Data"
Generate ==
    /\ data_source = "Use Demo Data"
    /\ \E mock \in MockTables : Script(data_source, NoFile, TRUE, mock, date_sel, "generate")

\* another range is picked in the date widget, which only a run with a table
\* renders; the picked range lies within [min_date, max_date]
ChangeDateRange ==
    /\ ~df.is_none
    /\ \E s, e \in MinDate(df.rows)..MaxDate(df.rows) :
          /\ s <= e
          /\ <<s, e>> # date_sel
          /\ Script(data_source, uploaded_file, FALSE, NoMock, <<s, e>>, "date")

InitSession ==
    /\ IdleSession /\ IdleCleaner /\ IdleTab1
    /\ filtered_df = <<>>
    /\ rfm = [status |-> "no table", warned |-> FALSE, rec |-> <<>>]

Next == SelectSource \/ Upload \/ RemoveFile \/ Generate \/ ChangeDateRange

Spec == InitSession /\ [][Next]_vars


-----------------------------------------------------------------------------
(* Claims about the session *)

\* C5: once a table is current, a rerun triggered only by a change of the date
\* range keeps it as the current table.
C5_TableKeptAcrossReruns ==
    [][(~df.is_none /\ trigger' = "date") => df' = df]_vars

\* C6: when load_data fails on an uploaded file, the error is reported and the
\* table that was current before the failed load is still the current table.
C6_FailedLoadKeepsTable ==
    [][(~df.is_none /\ trigger' = "upload"
          /\ FileContent(uploaded_file').kind # "csv") => (error' /\ df' = df)]_vars

\* the date filter selects no row of a loaded table
EmptyWindow == ~df.is_none /\ filtered_df = <<>>

\* C7 as stated: on an empty filtered window neither the RFM block nor the KPI
\* row, the weekly resample or the top-products groupby is executed.
C7_EmptyWindowSkipsAll ==
    EmptyWindow =>
        /\ rfm.status = Skipped
        /\ ~kpi.ran /\ ~sales_over_time.ran /\ ~top_products.ran

\* C7 amended: on an empty filtered window the RFM block is skipped, while the
\* KPI row, the weekly resample and the top-products groupby are executed on
\* the empty table (revenue 0, no orders, mean NaN, no weeks, no products).
C7_EmptyWindowSkipsRFM ==
    EmptyWindow =>
        /\ rfm.status = Skipped
        /\ kpi.ran /\ kpi.total_revenue = 0 /\ kpi.total_orders = 0
        /\ kpi.unique_customers = 0 /\ kpi.avg_is_nan
        /\ sales_over_time.ran /\ sales_over_time.rows = <<>>
        /\ top_products.ran /\ top_products.rows = <<>>

\* a rerun after a date-range change whose window holds no row of the table
C7_Witness == EmptyWindow /\ trigger = "date" /\ df.rows # <<>>

=============================================================================
